---------------------------- MODULE Spec2Model ----------------------------
(***************************************************************************)
(* The chat relay service of shw-chatbot: the two variants of the Express  *)
(* application (src/server.js, the listening server, and src/unnamed/      *)
(* part_000, the serverless export).  The state is the two module-level    *)
(* Maps, the arrays they hold, the clock, the interval timer of the        *)
(* reaper, and the chat handlers suspended at `await fetch`.               *)
(*                                                                         *)
(* A transcript is a JavaScript array, shared by reference between the Map *)
(* and every handler that captured it in `history`: arrays live in `heap`, *)
(* the Map and the handlers hold array identities.                         *)
(***************************************************************************)
EXTENDS Integers, Sequences, FiniteSets, TLC

VARIABLES
    variant,                \* which of the two source files runs
    now,                    \* Date.now(), in ms
    nextReap,               \* the time the setInterval timer is next due
    conversationHistories,  \* Map sessionId -> array identity
    requestTimes,           \* Map sessionId -> ms of the last accepted request
    heap,                   \* array identity -> the array's messages
    inflight,               \* chat handlers suspended at `await fetch`
    nextId,                 \* number of the next chat request to arrive
    event                   \* the handler step just run and the response it sent

vars == <<variant, now, nextReap, conversationHistories, requestTimes, heap,
          inflight, nextId, event>>

----------------------------------------------------------------------------
(* Program constants *)

MIN_REQUEST_INTERVAL == 1000

\* `history.length > 21` / `history.length - 21`
HISTORY_CAP == 21

\* `Date.now() - 3600000`
REAP_AGE == 3600000

\* the period given to setInterval
REAP_PERIOD == 3600000

(* Bounds of the model *)

\* Date.now() when the model starts; any value above REAP_AGE behaves alike
StartTime == 100000000

\* chat requests accepted after the initial state (a rejected request
\* changes nothing but the response, so rejections are not counted)
MaxRequests == 2

\* completed exchanges behind the warm initial state
SeedExchanges == 10

Variants == {"server", "api"}
Sessions == {"default", "s1"}

\* the instants at which the clock is read, as offsets from StartTime: each
\* side of the rate-limit interval and of the reaper's cutoff
Offsets == {0, 999, 1000, 3600000, 3601000}
Instants == {StartTime + d : d \in Offsets}

\* req.body.message: absent, the empty string, or a text
MessageInputs == {"missing", "empty", "text"}

----------------------------------------------------------------------------
(* Messages.  The text of the n-th accepted request is written             *)
(* <<"message", n>> and the completion the upstream returns for it         *)
(* <<"reply", n>>, so that every message of a transcript can be told from  *)
(* every other.                                                            *)

SYSTEM_PROMPT == <<"SYSTEM_PROMPT", 0>>
NoText == <<"none", 0>>
FALLBACK_REPLY == <<"No response from model.", 0>>

SystemMessage == [role |-> "system", content |-> SYSTEM_PROMPT]
UserMessage(id) == [role |-> "user", content |-> <<"message", id>>]
AssistantMessage(text) == [role |-> "assistant", content |-> text]
ReplyText(id) == <<"reply", id>>

----------------------------------------------------------------------------
(* Map and Array operations *)

MapHas(m, k) == k \in DOMAIN m
MapSet(m, k, v) == [x \in DOMAIN m \cup {k} |-> IF x = k THEN v ELSE m[x]]
MapDelete(m, k) == [x \in DOMAIN m \ {k} |-> m[x]]
MapDeleteAll(m, ks) == [x \in DOMAIN m \ ks |-> m[x]]

Push(h, x) == Append(h, x)

\* Array.prototype.splice(start, deleteCount), start counted from 0
Splice(h, start, deleteCount) ==
    SubSeq(h, 1, start) \o SubSeq(h, start + deleteCount + 1, Len(h))


----------------------------------------------------------------------------
(* The pieces of the chat handler, app.post('/api/chat') *)

\* (mutant) only an absent message is refused: `message === undefined`
MessageUndefinedOnly(m) == m = "missing"

\* `if (!message)`: undefined and '' are both falsy
MessageMissing(m) == m \in {"missing", "empty"}

\* (mutant) the stored timestamp is never found: `lastRequest = 0`
LastRequestMissed(rt, s) == 0

\* `requestTimes.get(sessionId) || 0`
LastRequest(rt, s) == IF MapHas(rt, s) THEN rt[s] ELSE 0

\* (mutant) the interval taken for a tenth of a second
RateLimitedTenth(last, t) == t - last < MIN_REQUEST_INTERVAL \div 10

\* `now - last < MIN_REQUEST_INTERVAL`
RateLimited(last, t) == t - last < MIN_REQUEST_INTERVAL

\* (mutant) the trim starts at index 0 and drops the system message
TrimFromZero(h) ==
    IF Len(h) > HISTORY_CAP THEN Splice(h, 0, Len(h) - HISTORY_CAP) ELSE h

\* (mutant) the splice removes one message too many:
\* `history.splice(1, history.length - 20)`
TrimOneMore(h) ==
    IF Len(h) > HISTORY_CAP THEN Splice(h, 1, Len(h) - HISTORY_CAP + 1) ELSE h

\* `if (history.length > 21) history.splice(1, history.length - 21)`
Trim(h) ==
    IF Len(h) > HISTORY_CAP THEN Splice(h, 1, Len(h) - HISTORY_CAP) ELSE h

\* `history.push({ role: 'user', content: message })` and the trim after it
AppendUser(h, id) == Trim(Push(h, UserMessage(id)))

\* (mutant) the reply is put in front: `history.unshift(...)`
AppendAssistantUnshift(h, text) == <<AssistantMessage(text)>> \o h

\* (mutant) the reply is returned but never pushed
AppendAssistantSkip(h, text) == h

\* (mutant) the reply is put right after the user message it answers, so
\* that replies stay in submission order
AppendAssistantInOrder(h, text) ==
    LET asked == {i \in 1..Len(h) : h[i] = UserMessage(text[2])}
    IN  IF asked = {} THEN Push(h, AssistantMessage(text))
        ELSE LET i == CHOOSE i \in asked : TRUE
             IN  SubSeq(h, 1, i) \o <<AssistantMessage(text)>>
                   \o SubSeq(h, i + 1, Len(h))

\* `history.push({ role: 'assistant', content: reply })`
AppendAssistant(h, text) == Push(h, AssistantMessage(text))

(* What the upstream call can come to: the transport fails (fetch or       *)
(* response.text() rejects), or an HTTP response arrives with a status and *)
(* a body.  A body is an error envelope, text that is no JSON, JSON with   *)
(* no choices[0].message.content, JSON whose content is '', or JSON with a *)
(* completion text.                                                        *)
ErrorStatuses == {401, 503}
TransportFailure == [kind |-> "transport", status |-> 0, body |-> "none"]
NoUpstream == [kind |-> "none", status |-> 0, body |-> "none"]
HttpResponse(st, b) == [kind |-> "http", status |-> st, body |-> b]
EmptyBodies == {"no_content", "empty_content"}

\* response.ok
ResponseOk(st) == st >= 200 /\ st <= 299

\* `data.choices?.[0]?.message?.content`: undefined and '' are NoText
PayloadContent(o, id) == IF o.body = "content" THEN ReplyText(id) ELSE NoText

\* server.js:88-89 throws on a falsy reply; part_000:83 substitutes a text
ExtractReply(v, o, id) ==
    IF v = "api" /\ PayloadContent(o, id) = NoText
    THEN FALLBACK_REPLY
    ELSE PayloadContent(o, id)

\* server.js:79-85 throws, and the catch answers 500; part_000:77-80
\* answers with response.status
NotOkStatus(v, st) == IF v = "server" THEN 500 ELSE st

\* the catch block: `res.status(500)`
CatchStatus == 500

Failure(st) == [status |-> st, reply |-> NoText, push |-> FALSE]

\* The handler from the resumption after `await fetch` to its response:
\* the status sent, the reply sent, and whether history.push ran.
ChatResult(v, o, id) ==
    IF o.kind = "transport" THEN Failure(CatchStatus)
    ELSE IF ~ResponseOk(o.status) THEN Failure(NotOkStatus(v, o.status))
    ELSE IF o.body = "invalid_json" THEN Failure(CatchStatus)
    ELSE IF ExtractReply(v, o, id) = NoText THEN Failure(CatchStatus)
    ELSE [status |-> 200, reply |-> ExtractReply(v, o, id), push |-> TRUE]

(* Clear and the reaper *)

\* (mutant) clear empties the whole Map: `conversationHistories.clear()`
ClearHistoriesAll(ch, s) == MapDeleteAll(ch, DOMAIN ch)

\* (mutant) clear leaves the transcript in place
ClearHistoriesKeep(ch, s) == ch

\* `conversationHistories.delete(sessionId)`
ClearHistories(ch, s) == MapDelete(ch, s)

\* (mutant) clear forgets the rate-limit entry
ClearTimesKeep(rt, s) == rt

\* `requestTimes.delete(sessionId)`
ClearTimes(rt, s) == MapDelete(rt, s)

\* (mutant) the age is taken in seconds: `cutoff = Date.now() - 3600`
ExpiredSeconds(rt, t) == {s \in DOMAIN rt : rt[s] < t - REAP_AGE \div 1000}

\* (mutant) the cutoff itself counts as old: `t <= cutoff`
ExpiredInclusive(rt, t) == {s \in DOMAIN rt : rt[s] <= t - REAP_AGE}

\* `cutoff = Date.now() - 3600000` and `if (t < cutoff)`
Expired(rt, t) == {s \in DOMAIN rt : rt[s] < t - REAP_AGE}

(* Arrays no Map entry and no suspended handler refers to are garbage. *)
Live(ch, inf) == {ch[s] : s \in DOMAIN ch} \cup {r.history : r \in inf}
Collect(hp, ch, inf) == [a \in DOMAIN hp \cap Live(ch, inf) |-> hp[a]]

\* the transcript stored for session s, <<>> when there is none
Transcript(s) ==
    IF MapHas(conversationHistories, s)
    THEN heap[conversationHistories[s]]
    ELSE <<>>

----------------------------------------------------------------------------
(* The record of the step just run.  op is "chat" for the handler's run up *)
(* to its response or to `await fetch` (status 0: no response yet),        *)
(* "reply" for its resumption, "clear", "reaper".  pre, clean and reaped   *)
(* are observations for the properties: the transcript the request found,  *)
(* whether nothing touched the transcript while it waited, and the         *)
(* sessions a reaper run deleted.  A suspended request keeps, as prev, the  *)
(* exchange of its session that completed with a completion text in the    *)
(* step just before it arrived, if there is one.                           *)
NoEvent ==
    [op |-> "none", id |-> 0, sessionId |-> "", message |-> "", status |-> 0,
     reply |-> NoText, upstream |-> NoUpstream, pre |-> <<>>, clean |-> FALSE,
     reaped |-> {}]

NoPrev == [id |-> 0, pre |-> <<>>, clean |-> FALSE]

LastId == SeedExchanges + MaxRequests

\* the array a request finds or creates: `[{ role: 'system', ... }]`
Seeded(h) == IF h = <<>> THEN <<SystemMessage>> ELSE h

ChatInvalid(s, m) ==
    /\ MessageMissing(m)
    /\ event' = [NoEvent EXCEPT !.op = "chat", !.id = nextId, !.sessionId = s,
                                !.message = m, !.status = 400]
    /\ UNCHANGED <<variant, now, nextReap, conversationHistories,
                   requestTimes, heap, inflight, nextId>>

ChatRateLimited(s, m) ==
    /\ ~MessageMissing(m)
    /\ RateLimited(LastRequest(requestTimes, s), now)
    /\ event' = [NoEvent EXCEPT !.op = "chat", !.id = nextId, !.sessionId = s,
                                !.message = m, !.status = 429]
    /\ UNCHANGED <<variant, now, nextReap, conversationHistories,
                   requestTimes, heap, inflight, nextId>>

ChatAccept(s, m) ==
    /\ nextId <= LastId
    /\ ~MessageMissing(m)
    /\ ~RateLimited(LastRequest(requestTimes, s), now)
    /\ LET array == IF MapHas(conversationHistories, s)
                    THEN conversationHistories[s] ELSE nextId
           found == Transcript(s)
           req   == [id |-> nextId, sessionId |-> s, history |-> array,
                     now |-> now, pre |-> found,
                     prev |-> IF event.op = "reply" /\ event.status = 200
                                 /\ event.upstream.body = "content"
                                 /\ event.sessionId = s
                              THEN [id |-> event.id, pre |-> event.pre,
                                    clean |-> event.clean]
                              ELSE NoPrev]
       IN  /\ requestTimes' = MapSet(requestTimes, s, now)
           /\ conversationHistories' =
                 IF MapHas(conversationHistories, s)
                 THEN conversationHistories
                 ELSE MapSet(conversationHistories, s, array)
           /\ inflight' = inflight \cup {req}
           /\ heap' = Collect(MapSet(heap, array, AppendUser(Seeded(found), nextId)),
                              conversationHistories', inflight')
    /\ event' = [NoEvent EXCEPT !.op = "chat", !.id = nextId, !.sessionId = s,
                                !.message = m, !.pre = Transcript(s)]
    /\ nextId' = nextId + 1
    /\ UNCHANGED <<variant, now, nextReap>>

\* (mutant) the resumption looks the session's array up again:
\* `conversationHistories.get(sessionId).push(...)`
ReplyTargetLookup(r, ch) ==
    IF MapHas(ch, r.sessionId) THEN ch[r.sessionId] ELSE r.history

\* the array the resumption pushes to: `history`, the reference the handler
\* took before `await fetch`
ReplyTarget(r, ch) == r.history

\* The resumption of request r when the upstream call has come to o.
Resume(r, o) ==
    LET res == ChatResult(variant, o, r.id)
    IN  /\ inflight' = inflight \ {r}
        /\ heap' = Collect(IF res.push
                           THEN [heap EXCEPT ![ReplyTarget(r, conversationHistories)] =
                                     AppendAssistant(@, res.reply)]
                           ELSE heap,
                           conversationHistories, inflight')
        /\ event' = [NoEvent EXCEPT
                       !.op = "reply", !.id = r.id, !.sessionId = r.sessionId,
                       !.message = "text", !.status = res.status,
                       !.reply = res.reply, !.upstream = o, !.pre = r.pre,
                       !.clean = /\ MapHas(conversationHistories, r.sessionId)
                                 /\ conversationHistories[r.sessionId] = r.history
                                 /\ heap[r.history] = AppendUser(Seeded(r.pre), r.id)]
        /\ UNCHANGED <<variant, now, nextReap, conversationHistories,
                       requestTimes, nextId>>

ChatTransportFailure(r) == Resume(r, TransportFailure)
ChatUpstreamNotOk(r, st) == Resume(r, HttpResponse(st, "error"))
ChatInvalidPayload(r) == Resume(r, HttpResponse(200, "invalid_json"))
ChatNoContent(r, b) == Resume(r, HttpResponse(200, b))
ChatSuccess(r) == Resume(r, HttpResponse(200, "content"))

\* app.post('/api/clear')
Clear(s) ==
    /\ conversationHistories' = ClearHistories(conversationHistories, s)
    /\ requestTimes' = ClearTimes(requestTimes, s)
    /\ heap' = Collect(heap, conversationHistories', inflight)
    /\ event' = [NoEvent EXCEPT !.op = "clear", !.sessionId = s, !.status = 200]
    /\ UNCHANGED <<variant, now, nextReap, inflight, nextId>>

\* the setInterval callback
Reaper ==
    /\ now >= nextReap
    /\ LET old == Expired(requestTimes, now)
       IN  /\ requestTimes' = MapDeleteAll(requestTimes, old)
           /\ conversationHistories' = MapDeleteAll(conversationHistories, old)
           /\ heap' = Collect(heap, conversationHistories', inflight)
           /\ event' = [NoEvent EXCEPT !.op = "reaper", !.reaped = old]
    /\ nextReap' = now + REAP_PERIOD
    /\ UNCHANGED <<variant, now, inflight, nextId>>

\* time passes
Tick(t) ==
    /\ t > now
    /\ now' = t
    /\ UNCHANGED <<variant, nextReap, conversationHistories, requestTimes,
                   heap, inflight, nextId, event>>

----------------------------------------------------------------------------
(* Initial states.  The process has just started (both Maps empty), or it  *)
(* has served SeedExchanges successful exchanges of session "s1", one per  *)
(* MIN_REQUEST_INTERVAL, and another interval has passed.                  *)

EmptyMap == [x \in {} |-> 0]

InitFreshAt(t, id) ==
    /\ variant \in Variants
    /\ now = t
    /\ nextReap = t + REAP_PERIOD
    /\ conversationHistories = EmptyMap
    /\ requestTimes = EmptyMap
    /\ heap = EmptyMap
    /\ inflight = {}
    /\ nextId = id
    /\ event = NoEvent

RECURSIVE SeedHistory(_)
SeedHistory(k) ==
    IF k = 0 THEN <<SystemMessage>>
    ELSE AppendAssistant(AppendUser(SeedHistory(k - 1), k), ReplyText(k))

SeedStart == StartTime - SeedExchanges * MIN_REQUEST_INTERVAL

InitWarm ==
    /\ variant \in Variants
    /\ now = StartTime
    /\ nextReap = SeedStart + REAP_PERIOD
    /\ conversationHistories = [s \in {"s1"} |-> 1]
    /\ requestTimes = [s \in {"s1"} |-> StartTime - MIN_REQUEST_INTERVAL]
    /\ heap = [a \in {1} |-> SeedHistory(SeedExchanges)]
    /\ inflight = {}
    /\ nextId = SeedExchanges + 1
    /\ event = [NoEvent EXCEPT
                  !.op = "reply", !.id = SeedExchanges, !.sessionId = "s1",
                  !.message = "text", !.status = 200,
                  !.reply = ReplyText(SeedExchanges),
                  !.upstream = HttpResponse(200, "content"),
                  !.pre = IF SeedExchanges = 1 THEN <<>>
                          ELSE SeedHistory(SeedExchanges - 1),
                  !.clean = TRUE]

Init == InitFreshAt(StartTime, SeedExchanges + 1) \/ InitWarm

Next ==
    \/ \E s \in Sessions, m \in MessageInputs : ChatInvalid(s, m)
    \/ \E s \in Sessions, m \in MessageInputs : ChatRateLimited(s, m)
    \/ \E s \in Sessions, m \in MessageInputs : ChatAccept(s, m)
    \/ \E r \in inflight : ChatTransportFailure(r)
    \/ \E r \in inflight, st \in ErrorStatuses : ChatUpstreamNotOk(r, st)
    \/ \E r \in inflight : ChatInvalidPayload(r)
    \/ \E r \in inflight, b \in EmptyBodies : ChatNoContent(r, b)
    \/ \E r \in inflight : ChatSuccess(r)
    \/ \E s \in Sessions : Clear(s)
    \/ Reaper
    \/ \E t \in Instants : Tick(t)

Spec == Init /\ [][Next]_vars

(* The warm initial state is the state the service is in after SeedExchanges *)
(* exchanges: under SpecWarmUp, which starts from the fresh state and takes  *)
(* the handler's own steps, TLC finds NotWarmYet violated.                   *)
WarmUpNext ==
    \/ inflight = {} /\ ChatAccept("s1", "text")
    \/ \E r \in inflight : ChatSuccess(r)
    \/ inflight = {} /\ Tick(now + MIN_REQUEST_INTERVAL)

SpecWarmUp == InitFreshAt(SeedStart, 1) /\ [][WarmUpNext]_vars

NotWarmYet == ~InitWarm

----------------------------------------------------------------------------
(* Vocabulary of the properties *)

Last(h) == h[Len(h)]

\* a step is the chat handler's run for session s up to its response or to
\* `await fetch` (handlers run within one reading of the clock)
ChatStep(s) == event'.op = "chat" /\ event'.sessionId = s /\ now' = now

\* that run accepted the request: no response yet, the handler is suspended
Accepted == event'.status = 0 /\ nextId' = nextId + 1

\* a step is the resumption of the suspended request r
ReplyStep(r) ==
    event'.op = "reply" /\ event'.id = r.id /\ inflight' = inflight \ {r}

ClearStep(s) == event'.op = "clear" /\ event'.sessionId = s /\ now' = now

ReaperStep == event'.op = "reaper" /\ nextReap' # nextReap

\* the upstream answered with a non-success status, or with a success status
\* and a payload that holds no completion text
UpstreamRefused(o) ==
    /\ o.kind = "http"
    /\ \/ o.status < 200
       \/ o.status > 299
       \/ o.body \in {"no_content", "empty_content"}

\* the upstream call failed in any way
UpstreamFailed(o) ==
    o.kind = "transport" \/ o.body = "invalid_json" \/ UpstreamRefused(o)

StoredUnchanged ==
    /\ DOMAIN conversationHistories' = DOMAIN conversationHistories
    /\ requestTimes' = requestTimes
    /\ \A s \in Sessions : Transcript(s)' = Transcript(s)

\* t is full with some of its oldest non-system messages removed
FrontTrimOf(t, full) ==
    /\ Len(t) >= 1 /\ Len(t) <= Len(full)
    /\ t = <<full[1]>> \o SubSeq(full, Len(full) - Len(t) + 2, Len(full))

----------------------------------------------------------------------------
(* C1: in every reachable state every stored transcript has at most 21     *)
(* messages, the state right after an assistant reply was appended         *)
(* included.                                                               *)
C1_TranscriptAtMost21 ==
    \A s \in DOMAIN conversationHistories : Len(Transcript(s)) <= 21

(* C2: in every reachable state the message at index 0 of every stored     *)
(* transcript is the system instruction message.                           *)
C2_SystemMessageFirst ==
    \A s \in DOMAIN conversationHistories :
        /\ Len(Transcript(s)) >= 1
        /\ Transcript(s)[1] = SystemMessage
        /\ Transcript(s)[1].role = "system"

\* a request was just accepted whose push met a full transcript: the trim
\* removed the oldest message after the system message
C2_Witness ==
    /\ event.op = "chat" /\ event.status = 0
    /\ Len(event.pre) >= 21
    /\ Transcript(event.sessionId)[1] = SystemMessage
    /\ Transcript(event.sessionId)[2] # event.pre[2]
    /\ Last(Transcript(event.sessionId)) = UserMessage(event.id)

(* C3: a chat request with a message, arriving less than 1000 ms after the *)
(* session's stored timestamp, is answered 429 and changes neither a       *)
(* transcript nor a timestamp.                                             *)
C3_RateLimitRejects ==
    [][\A s \in Sessions :
          ( /\ ChatStep(s)
            /\ event'.message = "text"
            /\ MapHas(requestTimes, s)
            /\ now - requestTimes[s] < 1000 )
          => ( /\ event'.status = 429
               /\ StoredUnchanged
               /\ inflight' = inflight )]_vars

\* a request was just rejected 999 ms after the accepted one
C3_Witness ==
    /\ event.op = "chat" /\ event.status = 429
    /\ MapHas(requestTimes, event.sessionId)
    /\ now - requestTimes[event.sessionId] = 999
    /\ MapHas(conversationHistories, event.sessionId)

(* C4: when the upstream answers with a non-success status, or with a      *)
(* success status and no completion text, the chat request ends in an      *)
(* error response and no assistant message is appended, in both variants.  *)
C4_RefusalIsErrorAndAppendsNothing ==
    [][\A r \in inflight :
          (ReplyStep(r) /\ UpstreamRefused(event'.upstream))
          => ( /\ event'.status >= 400
               /\ event'.reply = NoText
               /\ StoredUnchanged )]_vars

(* C5: when the upstream answers with a non-success status the response    *)
(* carries that status, and 500 is sent only when there is no upstream     *)
(* status (transport or parse failure), in both variants.                  *)
C5_UpstreamStatusPropagated ==
    [][\A r \in inflight :
          ReplyStep(r)
          => /\ ( /\ event'.upstream.kind = "http"
                  /\ (event'.upstream.status < 200 \/ event'.upstream.status > 299) )
                => event'.status = event'.upstream.status
             /\ event'.status = 500
                => ( \/ event'.upstream.kind = "transport"
                     \/ event'.upstream.body = "invalid_json"
                     \/ event'.upstream.status = 500 )]_vars

(* C6: after clear(s), s has neither a transcript nor a rate-limit entry;   *)
(* nothing but an accepted chat request gives s a transcript again, and    *)
(* the next chat request for s is accepted and starts the transcript       *)
(* <<system message, its user message>>.                                   *)
C6_ClearThenFresh ==
    [][\A s \in Sessions :
          /\ ClearStep(s)
             => ~MapHas(conversationHistories', s) /\ ~MapHas(requestTimes', s)
          /\ ( /\ ~MapHas(conversationHistories, s)
               /\ ~MapHas(requestTimes, s)
               /\ ChatStep(s)
               /\ event'.message = "text" )
             => ( /\ Accepted
                  /\ Transcript(s)' = <<SystemMessage, UserMessage(event'.id)>> )
          /\ (~MapHas(conversationHistories, s) /\ MapHas(conversationHistories', s))
             => (ChatStep(s) /\ Accepted)]_vars

\* s1 was cleared while a request of it was waiting (that request still
\* holds the old array, and no reaper run was due yet), and the next request
\* has just started the new transcript
C6_Witness ==
    /\ event.op = "chat" /\ event.status = 0 /\ event.sessionId = "s1"
    /\ now <= StartTime + MIN_REQUEST_INTERVAL
    /\ Transcript("s1") = <<SystemMessage, UserMessage(event.id)>>
    /\ \E r \in inflight :
          /\ r.sessionId = "s1" /\ r.id < event.id
          /\ r.history # conversationHistories["s1"]
          /\ Len(heap[r.history]) > 2

(* C7: two chat requests of one session, the second arriving after the     *)
(* reply to the first, at least 1000 ms apart, the upstream returning a    *)
(* completion for each: both are accepted, both succeed, and the           *)
(* transcript afterwards is the transcript before the first followed by    *)
(* user1, assistant1, user2, assistant2, less only some of its oldest      *)
(* non-system messages.                                                    *)
C7_TwoSequentialExchanges ==
    [][/\ \A s \in Sessions :
             ( /\ ChatStep(s)
               /\ event'.message = "text"
               /\ (MapHas(requestTimes, s) => now - requestTimes[s] >= 1000) )
             => ( /\ Accepted
                  /\ \E r \in inflight' : r.id = event'.id /\ r.sessionId = s )
       /\ \A r \in inflight :
             (ReplyStep(r) /\ event'.upstream = HttpResponse(200, "content"))
             => ( /\ event'.status = 200
                  /\ event'.reply = ReplyText(r.id)
                  /\ ( r.prev.id # 0 /\ r.prev.clean /\ event'.clean )
                     => ( /\ Len(Transcript(r.sessionId)') >= 5
                          /\ FrontTrimOf(
                               Transcript(r.sessionId)',
                               Seeded(r.prev.pre)
                                 \o << UserMessage(r.prev.id),
                                       AssistantMessage(ReplyText(r.prev.id)),
                                       UserMessage(r.id),
                                       AssistantMessage(ReplyText(r.id)) >>) ) )]_vars

\* the second of two sequential exchanges has just completed on a full
\* transcript: the four new messages close it
C7_Witness ==
    /\ event.op = "reply" /\ event.status = 200 /\ event.clean
    /\ event.id = SeedExchanges + 2
    /\ LET t == Transcript(event.sessionId)
           n == Len(t)
       IN  /\ n > 21
           /\ t[1] = SystemMessage
           /\ t[n] = AssistantMessage(ReplyText(event.id))
           /\ t[n - 1] = UserMessage(event.id)
           /\ t[n - 2] = AssistantMessage(ReplyText(event.id - 1))
           /\ t[n - 3] = UserMessage(event.id - 1)
           /\ Last(event.pre) = t[n - 2]

(* C8: a reaper run at time T deletes the rate-limit entry and the         *)
(* transcript of exactly the sessions whose timestamp is less than         *)
(* T - 3600000, and leaves every other session's entry and transcript as   *)
(* they were.                                                              *)
C8_ReaperDeletesExactlyExpired ==
    [][ReaperStep
       => LET old == {s \in Sessions :
                         MapHas(requestTimes, s) /\ requestTimes[s] < now - 3600000}
          IN  /\ DOMAIN requestTimes' = DOMAIN requestTimes \ old
              /\ DOMAIN conversationHistories' = DOMAIN conversationHistories \ old
              /\ \A s \in Sessions \ old :
                    /\ MapHas(requestTimes, s) => requestTimes'[s] = requestTimes[s]
                    /\ Transcript(s)' = Transcript(s)]_vars

\* a reaper run has just deleted one session and kept another whose
\* timestamp is the cutoff itself
C8_Witness ==
    /\ event.op = "reaper"
    /\ event.reaped # {}
    /\ \A s \in event.reaped :
          ~MapHas(requestTimes, s) /\ ~MapHas(conversationHistories, s)
    /\ \E s \in DOMAIN requestTimes :
          /\ requestTimes[s] = now - 3600000
          /\ MapHas(conversationHistories, s)

(* C9: an accepted chat request writes the timestamp and appends its user  *)
(* message before the upstream call, and a failing upstream call rolls     *)
(* back neither: the failure changes no transcript and no timestamp, and   *)
(* when nothing else touched the session meanwhile the transcript still    *)
(* ends with the user message, with no assistant reply after it, and the   *)
(* timestamp is still the request's acceptance time.                       *)
C9_FailureRollsBackNothing ==
    [][/\ \A s \in Sessions :
             (ChatStep(s) /\ Accepted)
             => ( /\ MapHas(requestTimes', s)
                  /\ requestTimes'[s] = now
                  /\ Last(Transcript(s)') = UserMessage(event'.id) )
       /\ \A r \in inflight :
             (ReplyStep(r) /\ UpstreamFailed(event'.upstream))
             => ( /\ StoredUnchanged
                  /\ event'.clean
                     => ( /\ Last(Transcript(r.sessionId)') = UserMessage(r.id)
                          /\ requestTimes'[r.sessionId] = r.now ) )]_vars

(* C10: a chat request whose message is missing or empty is answered 400,  *)
(* whatever the rate-limit state, and changes no transcript and no         *)
(* timestamp; no upstream call is made.                                    *)
C10_MissingMessageRejected ==
    [][\A s \in Sessions :
          (ChatStep(s) /\ event'.message \in {"missing", "empty"})
          => ( /\ event'.status = 400
               /\ StoredUnchanged
               /\ inflight' = inflight
               /\ nextId' = nextId )]_vars

\* an empty message has just been answered 400 although the session's last
\* accepted request is less than 1000 ms old
C10_Witness ==
    /\ event.op = "chat" /\ event.status = 400 /\ event.message = "empty"
    /\ MapHas(requestTimes, event.sessionId)
    /\ now - requestTimes[event.sessionId] < 1000
    /\ ~MapHas(conversationHistories, "default")

----------------------------------------------------------------------------
\* request r no longer holds the array stored for its session: the session
\* was cleared or reaped (and perhaps started again) while r waited
Stale(r) ==
    \/ ~MapHas(conversationHistories, r.sessionId)
    \/ conversationHistories[r.sessionId] # r.history

(* C11: whenever a chat request for session s returns a success response   *)
(* carrying reply r, the transcript stored for s at that moment ends with  *)
(* the assistant message r, whatever happened while the request waited.    *)
C11_SuccessReplyIsStored ==
    [][\A r \in inflight :
          (ReplyStep(r) /\ event'.status = 200)
          => ( /\ MapHas(conversationHistories', r.sessionId)
               /\ Last(Transcript(r.sessionId)') = AssistantMessage(event'.reply) )]_vars

\* C11 as amended: the same, for a request whose session was not cleared or
\* reaped while it waited (the session still stores the array it captured),
\* whatever other requests of the session are in flight.
C11_SuccessReplyStoredUnlessDeleted ==
    [][\A r \in inflight :
          (ReplyStep(r) /\ event'.status = 200 /\ ~Stale(r))
          => ( /\ MapHas(conversationHistories', r.sessionId)
               /\ Last(Transcript(r.sessionId)') = AssistantMessage(event'.reply)
               /\ Transcript(r.sessionId)'
                    = Append(Transcript(r.sessionId), AssistantMessage(event'.reply)) )]_vars

\* a success response has just been sent while an earlier request of the
\* same session is still waiting: the stored transcript ends with its reply
C11_Witness ==
    /\ event.op = "reply" /\ event.status = 200
    /\ MapHas(conversationHistories, event.sessionId)
    /\ Last(Transcript(event.sessionId)) = AssistantMessage(event.reply)
    /\ \E q \in inflight :
          /\ q.sessionId = event.sessionId
          /\ q.id < event.id
          /\ q.history = conversationHistories[event.sessionId]

(* C12: same-session requests are not mutually excluded.  Two requests of  *)
(* one session can wait on the upstream at once, each having passed the    *)
(* rate check and appended its user message; whichever resumes first has   *)
(* its reply appended at the end of the transcript at once, so the reply   *)
(* to the later request can precede the reply to the earlier one           *)
(* (C12_Witness is that execution).                                        *)
C12_RepliesInCompletionOrder ==
    [][\A p, q \in inflight :
          ( /\ p.id < q.id
            /\ p.sessionId = q.sessionId
            /\ p.history = q.history )
          => /\ q.now - p.now >= 1000
             /\ \E i, j \in 1..Len(heap[p.history]) :
                   /\ i < j
                   /\ heap[p.history][i] = UserMessage(p.id)
                   /\ heap[p.history][j] = UserMessage(q.id)
             /\ \A r \in {p, q} :
                   (ReplyStep(r) /\ event'.status = 200)
                   => heap'[r.history]
                        = Append(heap[r.history], AssistantMessage(event'.reply))]_vars

\* the earlier of two overlapping requests has just been answered, after
\* the later one: user1, user2, assistant2, assistant1
C12_Witness ==
    /\ event.op = "reply" /\ event.status = 200
    /\ MapHas(conversationHistories, event.sessionId)
    /\ LET t == Transcript(event.sessionId)
           n == Len(t)
       IN  /\ n >= 5
           /\ t[n] = AssistantMessage(ReplyText(event.id))
           /\ t[n - 1] = AssistantMessage(ReplyText(event.id + 1))
           /\ t[n - 2] = UserMessage(event.id + 1)
           /\ t[n - 3] = UserMessage(event.id)

\* what the server holds for session s is the same before and after the
\* step: its two Map entries, its transcript, and the arrays its suspended
\* requests hold
SessionUntouched(s) ==
    /\ MapHas(conversationHistories', s) = MapHas(conversationHistories, s)
    /\ Transcript(s)' = Transcript(s)
    /\ MapHas(requestTimes', s) = MapHas(requestTimes, s)
    /\ LastRequest(requestTimes', s) = LastRequest(requestTimes, s)
    /\ \A q \in inflight :
          q.sessionId = s => q \in inflight' /\ heap'[q.history] = heap[q.history]

(* C13: cross-session non-interference.  Every step of a chat request for  *)
(* session a (its run up to the upstream call, whatever its outcome, and   *)
(* its resumption, whatever the upstream did) and every clear of a leaves  *)
(* the transcript and the rate-limit entry of every other session b        *)
(* unchanged, whatever else is in flight.                                  *)
C13_OtherSessionsUntouched ==
    [][\A a \in Sessions :
          ( \/ ChatStep(a)
            \/ ClearStep(a)
            \/ \E r \in inflight : r.sessionId = a /\ ReplyStep(r) )
          => \A b \in Sessions \ {a} : SessionUntouched(b)]_vars

\* a session was just cleared while another session has a transcript, a
\* rate-limit entry and a request waiting on the upstream
C13_Witness ==
    /\ event.op = "clear"
    /\ \E b \in Sessions \ {event.sessionId} :
          /\ MapHas(conversationHistories, b)
          /\ MapHas(requestTimes, b)
          /\ \E q \in inflight :
                q.sessionId = b /\ q.history = conversationHistories[b]

\* the longest array the trim is tried on
MaxPreTrim == 26

\* an array of n messages: the system message, then n - 1 distinct ones
LongHistory(n) ==
    [i \in 1..n |-> IF i = 1 THEN SystemMessage ELSE UserMessage(i)]

\* t is the system message of full followed by the 20 newest messages of
\* full, in the order they have in full
Newest20Of(t, full) ==
    /\ Len(t) = 21
    /\ t[1] = full[1]
    /\ \A i \in 2..21 : t[i] = full[Len(full) - 21 + i]

(* C14: when the push of a user message makes the array longer than 21,    *)
(* the trim leaves exactly 21 messages: the system message at index 0 and  *)
(* then the 20 newest messages of the array as it was after the push, in   *)
(* their order.  The trim is also tried on arrays of every length up to    *)
(* MaxPreTrim, the lengths overlapping requests can build up.              *)
C14_TrimKeepsNewest20 ==
    [][\A s \in Sessions :
          (ChatStep(s) /\ Accepted)
          => LET full == Push(Seeded(Transcript(s)), UserMessage(event'.id))
             IN  /\ Len(full) > 21
                    => /\ full[1] = SystemMessage
                       /\ Newest20Of(Transcript(s)', full)
                 /\ Len(full) <= 21 => Transcript(s)' = full
                 /\ \A n \in 22..MaxPreTrim :
                       Newest20Of(Trim(LongHistory(n)), LongHistory(n))]_vars

\* a request was just accepted whose push made an array of 23 messages: the
\* trim removed the two oldest messages after the system message
C14_Witness ==
    /\ event.op = "chat" /\ event.status = 0
    /\ Len(event.pre) = 22
    /\ Len(Transcript(event.sessionId)) = 21
    /\ Transcript(event.sessionId)[2] = event.pre[4]
    /\ Transcript(event.sessionId)[20] = event.pre[22]
    /\ Transcript(event.sessionId)[21] = UserMessage(event.id)

(* C15: absent a clear, a session that stays within the 1-hour cadence is  *)
(* never deleted.  The timestamp of a session is the time of its last      *)
(* accepted request (only an accepted request of the session writes it);   *)
(* an entry or a transcript of the session goes away only in a clear of    *)
(* the session or in a reaper run more than 1 hour after that time.  So at *)
(* every reaper run at most 1 hour after the session's last accepted       *)
(* request its entry and its transcript survive as they are.               *)
C15_WithinCadenceNeverReaped ==
    [][\A s \in Sessions :
          /\ ( /\ MapHas(requestTimes', s)
               /\ LastRequest(requestTimes', s) # LastRequest(requestTimes, s) )
             => ChatStep(s) /\ Accepted /\ requestTimes'[s] = now
          /\ ( \/ MapHas(requestTimes, s) /\ ~MapHas(requestTimes', s)
               \/ MapHas(conversationHistories, s)
                    /\ ~MapHas(conversationHistories', s) )
             => \/ ClearStep(s)
                \/ ReaperStep /\ now - LastRequest(requestTimes, s) > 3600000
          /\ ( /\ ReaperStep
               /\ MapHas(requestTimes, s)
               /\ now - requestTimes[s] <= 3600000 )
             => /\ MapHas(requestTimes', s)
                /\ requestTimes'[s] = requestTimes[s]
                /\ MapHas(conversationHistories', s)
                     = MapHas(conversationHistories, s)
                /\ Transcript(s)' = Transcript(s)]_vars

\* the reaper has just run less than 1 hour after a request of a session
\* that was accepted since the start, and the session is still there
C15_Witness ==
    /\ event.op = "reaper"
    /\ \E s \in Sessions :
          /\ MapHas(requestTimes, s)
          /\ requestTimes[s] > StartTime
          /\ now - requestTimes[s] < 3600000
          /\ MapHas(conversationHistories, s)
          /\ Len(Transcript(s)) >= 2

(* C16: in every reachable state every session that has a stored           *)
(* transcript also has a rate-limit entry: the keys of                     *)
(* conversationHistories are keys of requestTimes, so the reaper, which    *)
(* walks requestTimes only, reaches every transcript.                      *)
C16_TranscriptHasTimestamp ==
    /\ DOMAIN conversationHistories \subseteq DOMAIN requestTimes
    /\ \A s \in Sessions :
          MapHas(conversationHistories, s) => MapHas(requestTimes, s)

\* a request whose session was deleted while it waited has just completed:
\* the session has neither entry, while another session has both and a
\* request waiting on the upstream
C16_Witness ==
    /\ event.op = "reply"
    /\ ~event.clean
    /\ ~MapHas(conversationHistories, event.sessionId)
    /\ ~MapHas(requestTimes, event.sessionId)
    /\ \E b \in Sessions \ {event.sessionId} :
          /\ MapHas(conversationHistories, b)
          /\ MapHas(requestTimes, b)
          /\ \E q \in inflight : q.sessionId = b

(* C17: two chat requests accepted for one session, with no clear and no   *)
(* reaper deletion of the session between them, are accepted at least      *)
(* 1000 ms apart.  At every accepted request of a session that has a       *)
(* timestamp, the clock is at least 1000 past it; the timestamp is at      *)
(* least the acceptance time of every request of the session that is still *)
(* waiting and whose array is still the stored one; a resumption,          *)
(* whatever its outcome, leaves every timestamp alone.  A clear removes    *)
(* the timestamp, so the rate check passes again at once.                  *)
C17_AcceptedRequestsSpaced ==
    [][/\ \A s \in Sessions :
             (ChatStep(s) /\ Accepted)
             => /\ MapHas(requestTimes, s) => now - requestTimes[s] >= 1000
                /\ \A q \in inflight :
                      (q.sessionId = s /\ ~Stale(q)) => now - q.now >= 1000
                /\ requestTimes'[s] = now
       /\ \A q \in inflight :
             /\ ~Stale(q) => /\ MapHas(requestTimes, q.sessionId)
                             /\ q.now <= requestTimes[q.sessionId]
             /\ ReplyStep(q) => requestTimes' = requestTimes
       /\ \A s \in Sessions :
             ClearStep(s)
             => /\ ~MapHas(requestTimes', s)
                /\ ~RateLimited(LastRequest(requestTimes', s), now')]_vars

\* a request was just accepted exactly 1000 ms after the previous request
\* of its session, which is still waiting on the upstream
C17_Witness ==
    /\ event.op = "chat" /\ event.status = 0
    /\ requestTimes[event.sessionId] = now
    /\ \E q \in inflight :
          /\ q.sessionId = event.sessionId
          /\ q.id < event.id
          /\ ~Stale(q)
          /\ now - q.now = 1000

\* across a clear the spacing is not kept: a request was just accepted at
\* the instant at which an earlier request of its session, cleared since
\* and still waiting, was accepted
AcceptedRightAfterClear ==
    /\ event.op = "chat" /\ event.status = 0
    /\ \E q \in inflight :
          /\ q.sessionId = event.sessionId
          /\ q.id < event.id
          /\ Stale(q)
          /\ q.now = now

(* C18: the completion, success or failure, of a chat request whose        *)
(* session was cleared or reaped while it waited changes nothing that is   *)
(* stored for that session: no transcript and no rate-limit entry is       *)
(* re-created, and a fresh transcript that a later request started for the *)
(* session does not get the stale reply.                                   *)
C18_StaleCompletionChangesNothing ==
    [][\A r \in inflight :
          (ReplyStep(r) /\ Stale(r))
          => /\ MapHas(conversationHistories', r.sessionId)
                  = MapHas(conversationHistories, r.sessionId)
             /\ MapHas(requestTimes', r.sessionId)
                  = MapHas(requestTimes, r.sessionId)
             /\ requestTimes' = requestTimes
             /\ conversationHistories' = conversationHistories
             /\ Transcript(r.sessionId)' = Transcript(r.sessionId)
             /\ \A q \in inflight' :
                   q.sessionId = r.sessionId /\ q.history # r.history
                   => heap'[q.history] = heap[q.history]]_vars

\* a request deleted while it waited has just been answered 200, after a
\* later request started a fresh transcript for its session: the fresh
\* transcript holds the system message and the later user message only
C18_Witness ==
    /\ event.op = "reply" /\ event.status = 200
    /\ ~event.clean
    /\ MapHas(conversationHistories, event.sessionId)
    /\ MapHas(requestTimes, event.sessionId)
    /\ Transcript(event.sessionId) = <<SystemMessage, UserMessage(event.id + 1)>>

============================================================================
